---------------------------- MODULE Spec2Model ----------------------------
(***************************************************************************)
(* Device session manager of logcat-web.py (class DeviceManager) and its   *)
(* websocket_handler.                                                      *)
(*                                                                         *)
(* The program is one asyncio event loop.  A coroutine runs without        *)
(* interruption from one `await` that suspends to the next, so every       *)
(* action below is one such segment of a coroutine: its guard is the       *)
(* position of the coroutine, its effect the assignments of the segment.   *)
(* What the backend does (adb connect succeeds or not, the log stream      *)
(* yields a record, ends or fails, a connection is lost) is chosen by the  *)
(* environment.  Two consecutive awaits with no assignment between them    *)
(* are one position.                                                       *)
(*                                                                         *)
(* The specifications differ in what the environment does and in what is   *)
(* observed:                                                               *)
(*   Spec, FairSpec  two observers issue connect and disconnect commands;  *)
(*   SoloSpec        one observer, and also remove and ignored commands;   *)
(*   RegSpec         one observer, an empty Registry at first, add_device, *)
(*                   set_nickname, clear_stats and scan, records counted;  *)
(*   FanSpec         the connections of the observers and the delivery of  *)
(*                   every event to each of them;                          *)
(*   RosterSpec      one observer, no session: add_device, remove,         *)
(*                   set_nickname, clear_stats, and scans whose probes     *)
(*                   meet every outcome;                                   *)
(*   BootSpec        the process starts with any config file, is shut down *)
(*                   and started again, no session;                        *)
(*   RestartSpec     the same with sessions and counted records, from two  *)
(*                   config files;                                         *)
(*   StreamSpec      a connected device whose task reads lines of every    *)
(*                   form, with set_nickname commands;                     *)
(*   ParseSpec       the same task reading every line the model draws;     *)
(*   CrowdSpec       two observers issue connect, disconnect and remove    *)
(*                   commands;                                             *)
(*   ShutdownSpec    one observer and the auto-connect of on_startup, then *)
(*                   on_cleanup with whatever is in progress.              *)
(***************************************************************************)
EXTENDS Integers, Sequences, FiniteSets, TLC

\* Ids of the devices load_config put in the Registry.
DeviceIds == {"dev"}

\* Observers (websocket_handler instances); each handles one command at a time.
Observers == {"o1", "o2"}

\* Bound: run_logcat tasks of one device that exist at the same time.
MaxLoops == 2

Slots == 1..MaxLoops

VARIABLES
    devices,    \* keys of DeviceManager.devices
    conn,       \* DeviceInfo.connection_type of each id
    status,     \* DeviceInfo.status of each id
    lastSeen,   \* DeviceInfo.last_seen is not None
    tasks,      \* DeviceManager.tasks: id -> slot of the task, 0 for no entry
    processes,  \* DeviceManager.processes: id -> the Process object, or NoProc
    loops,      \* the run_logcat tasks: id -> slot -> [pc, cancel]
    cmd,        \* per observer: the command its handler runs or ran last
    shown,      \* history: the device as the page of a connected observer
                \* holds it (handleMessage): the status the last device_added
                \* or device_update of the id carried, "absent" once a
                \* device_removed of the id was the last of them
    session     \* history: "closed" once a disconnect_device(id) has returned,
                \* "leak" if connect_device or run_logcat broadcast a log or
                \* device_update of the id then, "open" from the next connect
                \* command on

\* The fields of a device that the commands add_device, set_nickname and
\* clear_stats and the records of the stream set.  Spec, FairSpec and SoloSpec
\* do not observe them: there they stay as Init left them.
VARIABLES
    color,      \* DeviceInfo.color of each id, as its index in DEVICE_COLORS
    colorIndex, \* DeviceManager.color_index
    nickname,   \* DeviceInfo.nickname of each id
    stats,      \* DeviceInfo.stats of each id: level -> count, and the total
    added       \* history: the number of device_added events of each id

regVars == <<color, colorIndex, nickname, stats, added>>

\* The connections of the observers and the delivery of events to them.
\* Only FanSpec observes them: in the other specifications every observer is
\* connected and a broadcast is taken as delivered when it is made (shown).
VARIABLES
    clients,    \* DeviceManager.clients
    ws,         \* per observer, its websocket_handler: "none" (no connection
                \* yet), "preparing" (in ws.prepare), "open" (in the receive
                \* loop), "closing" (the connection is lost, the handler has
                \* not run since), "finished" (the handler has ended)
    inbox,      \* per observer: the events written to its connection, in order
    pending,    \* the send_str calls broadcast has started and that have not
                \* run yet, in the order the event loop runs them
    seq,        \* history: the number of events handed to broadcast
    audience    \* history: the clients set at each of these broadcasts

fanVars == <<clients, ws, inbox, pending, seq, audience>>

\* What the program takes from and hands to its environment, in one record.
\* The specifications that do not observe a field leave it as Init set it.
VARIABLES
    env

\* scan_network: what the probe of each candidate host came to, from the
\* gather of the probes until the scan returns.
probes == env.probes

\* scan_network: found_devices.
found == env.found

\* CONFIG_FILE: missing, corrupt (no JSON object with a list of devices), or
\* a list with its entries.
file == env.file

\* "cold": the process is constructed and on_startup has not run; "up": it
\* serves; "saved": on_cleanup has saved the config and the process has
\* ended.
boot == env.boot

\* parse_log_line returned None, or was not called yet.
NoRecord == [level |-> "none"]

\* env.line, env.parsed and env.logged have the ids whose tasks have read a
\* line.
Last(f, none) ==
    [d \in DeviceIds |-> IF d \in DOMAIN f THEN f[d] ELSE none]

\* run_logcat: the line the tasks of each id read last.
line == Last(env.line, [pre |-> "none"])

\* run_logcat: what parse_log_line returned for it.
parsed == Last(env.parsed, NoRecord)

\* run_logcat: the log message of each id handed to broadcast last.
logged == Last(env.logged, NoRecord)

envVars == <<env>>

vars == <<devices, conn, status, lastSeen, tasks, processes, loops, cmd, shown,
          session, color, colorIndex, nickname, stats, added,
          clients, ws, inbox, pending, seq, audience, env>>

-----------------------------------------------------------------------------
(* Values *)

Statuses == {"offline", "connecting", "online"}

NoProc == [owner |-> 0, exited |-> FALSE]

\* len(DEVICE_COLORS).
PaletteSize == 8

\* The levels LOG_PATTERN accepts that the model tells apart: "E" has a key
\* in the stats of a new device, "F" has none (stats.get(level, 0)).
Levels == {"E", "F"}

\* Bound: records counted per device.
MaxRecords == 2

\* The stats of a new device, and what clear_stats assigns; a level without a
\* key counts 0.
ZeroStats == [E |-> 0, F |-> 0, total |-> 0]

Nicknames == {"", "nick"}

\* Bound: events handed to broadcast while the deliveries are observed.
MaxEvents == 3

\* The device_list message: get_all_devices() when the message is built.
DeviceList(dv, nk) ==
    [type |-> "device_list", n |-> 0, devs |-> dv, nick |-> [d \in dv |-> nk[d]]]

\* Bound: devices created since the process started.
MaxCreated == 9

\* Bound: the candidate hosts of a scan, subnet.1 .. subnet.MaxHosts
\* (range(1, 255) in the source).
MaxHosts == 3

Hosts == 1..MaxHosts

\* What check_host meets: the connection is refused, open_connection is not
\* over after SCAN_TIMEOUT, the connection is made and closed, or it is made
\* and `await writer.wait_closed()` raises (the peer has reset it).
Outcomes == {"refused", "timeout", "connected", "reset"}

\* No scan is probing.
NoProbes == <<>>

\* CONFIG_FILE does not exist.
NoFile == [kind |-> "missing", entries |-> <<>>]

\* The environment when the process is constructed, with the config file f
\* and on_startup run or not (b): no scan is probing, no line was read and no
\* log message broadcast.
Env(f, b) ==
    [probes |-> NoProbes, found |-> <<>>, file |-> f, boot |-> b,
     line |-> <<>>, parsed |-> <<>>, logged |-> <<>>]

\* The environment of a specification that does not observe it.
InitEnv == env = Env(NoFile, "up")

FreeLoop == [pc |-> "free", cancel |-> FALSE]

\* A task that has finished: run_logcat returned ("returned"), the
\* CancelledError left it ("cancelled"), or `self.devices[device_id]` raised
\* KeyError in its first step ("crashed").
Dead(l) == l.pc \in {"returned", "cancelled", "crashed"}

\* A task object that exists and has not finished.
Alive(l) == l.pc \notin {"free", "returned", "cancelled", "crashed"}

AliveIn(lp, d) == {s \in Slots : Alive(lp[d][s])}

AliveLoops(d) == AliveIn(loops, d)

\* The record of a handler: the command, the position of its coroutine, the
\* task it awaits, and what the call did so far: the events it broadcast,
\* what the backend answered.  dc: the connect was issued right after a
\* disconnect_device of the same id had returned, with no run_logcat task of
\* the id alive.
Idle ==
    [op |-> "none", dev |-> "-", pc |-> "done", t |-> 0, ev |-> <<>>,
     ret |-> "-", backend |-> "-", dc |-> FALSE]

\* The record of a handler whose call c is over: the command and what the
\* call returned ("raised": it raised, and websocket_handler has ended).
Done(c, r) == [Idle EXCEPT !.op = c.op, !.dev = c.dev, !.ret = r]

\* The suspension points of run_logcat inside its try body: a CancelledError
\* raised there is caught by `except asyncio.CancelledError` and ends the loop.
TryAwaits == {"open", "read", "eof_wait"}

\* The suspension points of the `except Exception` handler.
HandlerAwaits == {"err_wait"}

\* A finished task is freed once neither the tasks map nor a handler awaiting
\* it refers to it.
Collect(lp, tk, cm) ==
    [d \in DeviceIds |-> [s \in Slots |->
        IF /\ Dead(lp[d][s])
           /\ tk[d] # s
           /\ \A o \in Observers :
                 ~(cm[o].pc = "d_await" /\ cm[o].dev = d /\ cm[o].t = s)
        THEN FreeLoop
        ELSE lp[d][s]]]

FreeSlots(d) == {s \in Slots : loops[d][s].pc = "free"}

LowestFree(d) == CHOOSE s \in FreeSlots(d) : \A r \in FreeSlots(d) : s <= r

-----------------------------------------------------------------------------
(* broadcast *)

BroadcastDropped(sh, d, st) == sh

\* broadcast({'type': 'device_update', 'data': device.to_dict()}): the
\* message carries the status the device has when broadcast is called.  The
\* page stores the device under its id, whether it held the id or not.
Broadcast(sh, d, st) == [sh EXCEPT ![d] = st]

\* broadcast({'type': 'device_removed', 'data': {'id': device_id}}): the page
\* deletes the id.
BroadcastRemoved(sh, d) == [sh EXCEPT ![d] = "absent"]

\* connect_device or run_logcat hands a log or device_update message of id d
\* to broadcast.
Emitted(se, d) == [se EXCEPT ![d] = IF @ = "closed" THEN "leak" ELSE @]

-----------------------------------------------------------------------------
(* Initial state: the Registry as load_config left it, nothing connected. *)

Init ==
    /\ devices = DeviceIds
    /\ conn \in [DeviceIds -> {"wifi", "usb"}]
    /\ status = [d \in DeviceIds |-> "offline"]
    /\ lastSeen = [d \in DeviceIds |-> FALSE]
    /\ tasks = [d \in DeviceIds |-> 0]
    /\ processes = [d \in DeviceIds |-> NoProc]
    /\ loops = [d \in DeviceIds |-> [s \in Slots |-> FreeLoop]]
    /\ cmd = [o \in Observers |-> Idle]
    /\ shown = [d \in DeviceIds |-> "offline"]
    /\ session = [d \in DeviceIds |-> "open"]
    /\ color = [d \in DeviceIds |-> 0]
    /\ colorIndex = Cardinality(DeviceIds)
    /\ nickname = [d \in DeviceIds |-> ""]
    /\ stats = [d \in DeviceIds |-> ZeroStats]
    /\ added = [d \in DeviceIds |-> 1]
    /\ clients = Observers
    /\ ws = [o \in Observers |-> "open"]
    /\ inbox = [o \in Observers |-> <<DeviceList(devices, nickname)>>]
    /\ pending = <<>>
    /\ seq = 0
    /\ audience = <<>>
    /\ InitEnv

-----------------------------------------------------------------------------
(* connect_device *)

FailedPcFallsThrough == "c_online"

\* Position of connect_device after its failure branch has broadcast
\* "offline": the coroutine is about to `return False`.
FailedPc == "c_fail"

\* `if device_id not in self.devices: return False`, else status = "connecting"
\* and the first broadcast; the coroutine then waits for the broadcast, for
\* `adb connect` (wifi only) and for get_device_name.
ConnectCall(o, d) ==
    /\ boot = "up"
    /\ cmd[o].pc = "done"
    /\ IF d \notin devices
       THEN /\ cmd' = [cmd EXCEPT ![o] =
                        [Idle EXCEPT !.op = "connect", !.dev = d, !.ret = "False"]]
            /\ session' = [session EXCEPT ![d] = "open"]
            /\ UNCHANGED <<status, shown>>
       ELSE /\ status' = [status EXCEPT ![d] = "connecting"]
            /\ shown' = Broadcast(shown, d, "connecting")
            /\ session' = [session EXCEPT ![d] = "open"]
            /\ cmd' = [cmd EXCEPT ![o] =
                        [Idle EXCEPT !.op = "connect", !.dev = d, !.pc = "c_wait",
                                     !.ev = <<"connecting">>,
                                     !.dc = /\ session[d] # "open"
                                            /\ AliveLoops(d) = {}]]
    /\ UNCHANGED <<devices, conn, lastSeen, tasks, processes, loops>>
    /\ UNCHANGED <<regVars, fanVars, envVars>>

\* The backend does not connect: the output of `adb connect` holds neither
\* "connected" nor "already" (lines 203-206), or starting or reading the
\* subprocess raises (lines 222-226).  Both set "offline" and broadcast it.
ConnectFailed(o) ==
    LET d == cmd[o].dev IN
    /\ cmd[o].pc = "c_wait"
    /\ conn[d] = "wifi"
    /\ cmd' = [cmd EXCEPT ![o].pc = FailedPc, ![o].backend = "failed",
                          ![o].ev = Append(@, "offline")]
    /\ status' = [status EXCEPT ![d] = "offline"]
    /\ shown' = Broadcast(shown, d, "offline")
    /\ session' = Emitted(session, d)
    /\ UNCHANGED <<devices, conn, lastSeen, tasks, processes, loops>>
    /\ UNCHANGED <<regVars, fanVars, envVars>>

\* `return False` after the failure broadcast.
ConnectReturnFalse(o) ==
    /\ cmd[o].pc = "c_fail"
    /\ cmd' = [cmd EXCEPT ![o] = Done(@, "False")]
    /\ UNCHANGED <<devices, conn, status, lastSeen, tasks, processes, loops,
                   shown, session>>
    /\ UNCHANGED <<regVars, fanVars, envVars>>

\* The backend connected (or the device is usb) and get_device_name returned:
\* status = "online", last_seen is set, second broadcast.
ConnectOnline(o) ==
    LET d == cmd[o].dev IN
    /\ cmd[o].pc = "c_wait"
    /\ cmd' = [cmd EXCEPT ![o].pc = "c_online", ![o].backend = "ok",
                          ![o].ev = Append(@, "online")]
    /\ status' = [status EXCEPT ![d] = "online"]
    /\ lastSeen' = [lastSeen EXCEPT ![d] = TRUE]
    /\ shown' = Broadcast(shown, d, "online")
    /\ session' = Emitted(session, d)
    /\ UNCHANGED <<devices, conn, tasks, processes, loops>>
    /\ UNCHANGED <<regVars, fanVars, envVars>>

NewTaskNotCreated == FreeLoop

\* The task create_task(self.run_logcat(device_id)) makes: not yet run.
NewTask == [pc |-> "new", cancel |-> FALSE]

\* `task = asyncio.create_task(...)`, `self.tasks[device_id] = task`, `return True`.
ConnectStart(o) ==
    LET d == cmd[o].dev IN
    /\ cmd[o].pc = "c_online"
    /\ FreeSlots(d) # {}
    /\ LET s  == LowestFree(d)
           tk == [tasks EXCEPT ![d] = s]
           cm == [cmd EXCEPT ![o] = Done(@, "True")]
       IN /\ tasks' = tk
          /\ cmd' = cm
          /\ loops' = Collect([loops EXCEPT ![d][s] = NewTask], tk, cm)
    /\ UNCHANGED <<devices, conn, status, lastSeen, processes, shown, session>>
    /\ UNCHANGED <<regVars, fanVars, envVars>>

-----------------------------------------------------------------------------
(* disconnect_device *)

\* task.cancel(): a request, delivered when the task next resumes; no effect
\* on a task that has finished.
Cancel(l) == IF Alive(l) THEN [l EXCEPT !.cancel = TRUE] ELSE l

\* Lines 237-247, run without suspension once `await self.tasks[device_id]`
\* is over (hadTask) or when the id has no task: `del self.tasks[device_id]`
\* (KeyError if another call deleted the entry meanwhile), terminate() of the
\* recorded process (ProcessLookupError from asyncio if that process has
\* exited), status = "offline" and its broadcast.  c is the handler's record,
\* lp the tasks as the step leaves them.
DisconnectRest(o, d, c, lp, hadTask) ==
    LET tk     == IF hadTask THEN [tasks EXCEPT ![d] = 0] ELSE tasks
        raised == Done(c, "raised")
    IN
    IF hadTask /\ tasks[d] = 0
    THEN \* del self.tasks[device_id] raises KeyError
         /\ cmd' = [cmd EXCEPT ![o] = raised]
         /\ loops' = Collect(lp, tasks, cmd')
         /\ UNCHANGED <<tasks, processes, status, shown, session>>
    ELSE IF processes[d] # NoProc /\ processes[d].exited
    THEN \* self.processes[device_id].terminate() raises ProcessLookupError
         /\ cmd' = [cmd EXCEPT ![o] = raised]
         /\ tasks' = tk
         /\ loops' = Collect(lp, tk, cmd')
         /\ UNCHANGED <<processes, status, shown, session>>
    ELSE /\ tasks' = tk
         /\ processes' = [processes EXCEPT ![d] = NoProc]
         /\ IF d \in devices
            THEN /\ status' = [status EXCEPT ![d] = "offline"]
                 /\ shown' = Broadcast(shown, d, "offline")
                 /\ cmd' = [cmd EXCEPT ![o] =
                              [c EXCEPT !.pc = "d_bcast", !.t = 0,
                                        !.ev = Append(@, "offline")]]
                 /\ UNCHANGED session
            ELSE \* nothing to broadcast: disconnect_device returns at once;
                 \* remove_device goes on to `del self.devices[device_id]`,
                 \* a KeyError since the id is gone
                 /\ cmd' = [cmd EXCEPT ![o] =
                              Done(c, IF c.op = "remove" THEN "raised" ELSE "ok")]
                 /\ session' = [session EXCEPT ![d] = "closed"]
                 /\ UNCHANGED <<status, shown>>
         /\ loops' = Collect(lp, tk, cmd')

\* Lines 231-234 for the call with record c: with a task recorded for the id,
\* cancel it and await it.  The await suspends unless the task has already
\* finished; awaiting a task that ended with an exception raises it.
DisconnectBegin(o, d, c) ==
    IF tasks[d] # 0 /\ Alive(loops[d][tasks[d]])
    THEN /\ loops' = [loops EXCEPT ![d][tasks[d]] = Cancel(@)]
         /\ cmd' = [cmd EXCEPT ![o] = [c EXCEPT !.pc = "d_await", !.t = tasks[d]]]
         /\ UNCHANGED <<tasks, processes, status, shown, session>>
    ELSE IF tasks[d] # 0 /\ loops[d][tasks[d]].pc = "crashed"
    THEN /\ cmd' = [cmd EXCEPT ![o] = Done(c, "raised")]
         /\ UNCHANGED <<tasks, processes, status, shown, session, loops>>
    ELSE DisconnectRest(o, d, c, loops, tasks[d] # 0)

\* The disconnect command.
DisconnectCall(o, d) ==
    /\ boot = "up"
    /\ cmd[o].pc = "done"
    /\ DisconnectBegin(o, d, [Idle EXCEPT !.op = "disconnect", !.dev = d])
    /\ UNCHANGED <<devices, conn, lastSeen>>
    /\ UNCHANGED <<regVars, fanVars, envVars>>

\* The awaited task has finished: the await returns, or raises the
\* CancelledError the handler passes over.
DisconnectJoined(o) ==
    LET d == cmd[o].dev IN
    /\ cmd[o].pc = "d_await"
    /\ Dead(loops[d][cmd[o].t])
    /\ DisconnectRest(o, d, cmd[o], loops, TRUE)
    /\ UNCHANGED <<devices, conn, lastSeen>>
    /\ UNCHANGED <<regVars, fanVars, envVars>>

\* disconnect_device returns after its broadcast.
DisconnectReturn(o) ==
    /\ cmd[o].pc = "d_bcast"
    /\ cmd[o].op = "disconnect"
    /\ cmd' = [cmd EXCEPT ![o] = Done(@, "ok")]
    /\ session' = [session EXCEPT ![cmd[o].dev] = "closed"]
    /\ UNCHANGED <<devices, conn, status, lastSeen, tasks, processes, loops, shown>>
    /\ UNCHANGED <<regVars, fanVars, envVars>>

-----------------------------------------------------------------------------
(* remove_device *)

\* The remove command: `if device_id in self.devices`, then the call of
\* disconnect_device; nothing for an id that is not registered.
RemoveCall(o, d) ==
    /\ boot = "up"
    /\ cmd[o].pc = "done"
    /\ IF d \in devices
       THEN DisconnectBegin(o, d, [Idle EXCEPT !.op = "remove", !.dev = d])
       ELSE /\ cmd' = [cmd EXCEPT ![o] =
                        [Idle EXCEPT !.op = "remove", !.dev = d, !.ret = "ok"]]
            /\ UNCHANGED <<tasks, processes, status, shown, session, loops>>
    /\ UNCHANGED <<devices, conn, lastSeen>>
    /\ UNCHANGED <<regVars, fanVars, envVars>>

\* What `del self.devices[device_id]` leaves of the Registry.
Deleted(dv, d) == dv \ {d}

\* disconnect_device has returned after its broadcast: lines 179-180,
\* `del self.devices[device_id]` (KeyError if another remove deleted the id
\* meanwhile) and the device_removed broadcast.
RemoveDelete(o) ==
    LET d == cmd[o].dev IN
    /\ cmd[o].pc = "d_bcast"
    /\ cmd[o].op = "remove"
    /\ session' = [session EXCEPT ![d] = "closed"]
    /\ IF d \in devices
       THEN /\ devices' = Deleted(devices, d)
            /\ shown' = BroadcastRemoved(shown, d)
            /\ cmd' = [cmd EXCEPT ![o].pc = "r_bcast", ![o].ev = Append(@, "removed")]
       ELSE /\ cmd' = [cmd EXCEPT ![o] = Done(@, "raised")]
            /\ UNCHANGED <<devices, shown>>
    /\ UNCHANGED <<conn, status, lastSeen, tasks, processes, loops>>
    /\ UNCHANGED <<regVars, fanVars, envVars>>

\* remove_device returns after the device_removed broadcast.
RemoveReturn(o) ==
    /\ cmd[o].pc = "r_bcast"
    /\ cmd' = [cmd EXCEPT ![o] = Done(@, "ok")]
    /\ UNCHANGED <<devices, conn, status, lastSeen, tasks, processes, loops,
                   shown, session>>
    /\ UNCHANGED <<regVars, fanVars, envVars>>

-----------------------------------------------------------------------------
(* Commands that name nothing the Registry holds *)

\* A command whose action no branch of websocket_handler matches ("unknown"),
\* and set_nickname and clear_stats for an id that is not registered
\* (`if device_id and device_id in device_manager.devices`): no statement runs.
IgnoredOps == {"unknown", "set_nickname", "clear_stats"}

IgnoredCall(o, op, d) ==
    /\ boot = "up"
    /\ cmd[o].pc = "done"
    /\ op = "unknown" \/ d \notin devices
    /\ cmd' = [cmd EXCEPT ![o] = [Idle EXCEPT !.op = "ignored", !.dev = d, !.ret = "ok"]]
    /\ UNCHANGED <<devices, conn, status, lastSeen, tasks, processes, loops,
                   shown, session>>
    /\ UNCHANGED <<regVars, fanVars, envVars>>

-----------------------------------------------------------------------------
(* add_device, set_nickname, clear_stats, scan *)

NextColorClamped(ci) == IF ci < PaletteSize THEN ci ELSE PaletteSize - 1

\* get_next_color (lines 137-140): the index in DEVICE_COLORS of the color
\* it returns; it then increments color_index.
NextColor(ci) == ci % PaletteSize

KnownNever(dv, d) == FALSE

\* `if device_id in self.devices`.
Known(dv, d) == d \in dv

\* The add_device command: for an id the Registry holds, `return
\* self.devices[device_id]`; else a new DeviceInfo (offline, no nickname,
\* zeroed stats, connection type wifi, the next color of the palette) is
\* stored and device_added is broadcast.
AddCall(o, d) ==
    /\ boot = "up"
    /\ cmd[o].pc = "done"
    /\ IF Known(devices, d)
       THEN /\ cmd' = [cmd EXCEPT ![o] =
                        [Idle EXCEPT !.op = "add_device", !.dev = d, !.ret = "ok"]]
            /\ UNCHANGED <<devices, conn, status, lastSeen, shown, regVars>>
       ELSE /\ colorIndex < MaxCreated
            /\ devices' = devices \cup {d}
            /\ conn' = [conn EXCEPT ![d] = "wifi"]
            /\ status' = [status EXCEPT ![d] = "offline"]
            /\ lastSeen' = [lastSeen EXCEPT ![d] = FALSE]
            /\ nickname' = [nickname EXCEPT ![d] = ""]
            /\ stats' = [stats EXCEPT ![d] = ZeroStats]
            /\ color' = [color EXCEPT ![d] = NextColor(colorIndex)]
            /\ colorIndex' = colorIndex + 1
            /\ added' = [added EXCEPT ![d] = @ + 1]
            /\ shown' = Broadcast(shown, d, "offline")
            /\ cmd' = [cmd EXCEPT ![o] =
                        [Idle EXCEPT !.op = "add_device", !.dev = d,
                                     !.pc = "a_bcast", !.ev = <<"device_added">>]]
    /\ UNCHANGED <<tasks, processes, loops, session>>
    /\ UNCHANGED <<fanVars, envVars>>

\* add_device returns after the device_added broadcast.
AddReturn(o) ==
    /\ cmd[o].pc = "a_bcast"
    /\ cmd' = [cmd EXCEPT ![o] = Done(@, "ok")]
    /\ UNCHANGED <<devices, conn, status, lastSeen, tasks, processes, loops,
                   shown, session, regVars>>
    /\ UNCHANGED <<fanVars, envVars>>

\* The set_nickname command (lines 559-567): for a registered id the nickname
\* is assigned and a device_update broadcast; else nothing.
SetNicknameCall(o, d, n) ==
    /\ boot = "up"
    /\ cmd[o].pc = "done"
    /\ IF d \in devices
       THEN /\ nickname' = [nickname EXCEPT ![d] = n]
            /\ shown' = Broadcast(shown, d, status[d])
            /\ cmd' = [cmd EXCEPT ![o] =
                        [Idle EXCEPT !.op = "set_nickname", !.dev = d,
                                     !.pc = "u_bcast", !.ev = <<"device_update">>]]
       ELSE /\ cmd' = [cmd EXCEPT ![o] =
                        [Idle EXCEPT !.op = "ignored", !.dev = d, !.ret = "ok"]]
            /\ UNCHANGED <<nickname, shown>>
    /\ UNCHANGED <<devices, conn, status, lastSeen, tasks, processes, loops,
                   session, color, colorIndex, stats, added>>
    /\ UNCHANGED <<fanVars, envVars>>

ClearedTotalOnly(st) == [st EXCEPT !.total = 0]

\* What clear_stats assigns to the stats of the device (lines 585-587).
Cleared(st) == ZeroStats

\* The clear_stats command (lines 582-591): for a registered id the stats
\* are replaced and a device_update broadcast; else nothing.
ClearStatsCall(o, d) ==
    /\ boot = "up"
    /\ cmd[o].pc = "done"
    /\ IF d \in devices
       THEN /\ stats' = [stats EXCEPT ![d] = Cleared(@)]
            /\ shown' = Broadcast(shown, d, status[d])
            /\ cmd' = [cmd EXCEPT ![o] =
                        [Idle EXCEPT !.op = "clear_stats", !.dev = d,
                                     !.pc = "u_bcast", !.ev = <<"device_update">>]]
       ELSE /\ cmd' = [cmd EXCEPT ![o] =
                        [Idle EXCEPT !.op = "ignored", !.dev = d, !.ret = "ok"]]
            /\ UNCHANGED <<stats, shown>>
    /\ UNCHANGED <<devices, conn, status, lastSeen, tasks, processes, loops,
                   session, color, colorIndex, nickname, added>>
    /\ UNCHANGED <<fanVars, envVars>>

\* The handler goes on after the device_update broadcast of set_nickname or
\* clear_stats.
UpdateReturn(o) ==
    /\ cmd[o].pc = "u_bcast"
    /\ cmd' = [cmd EXCEPT ![o] = Done(@, "ok")]
    /\ UNCHANGED <<devices, conn, status, lastSeen, tasks, processes, loops,
                   shown, session, regVars>>
    /\ UNCHANGED <<fanVars, envVars>>

\* The scan command and the scan endpoint, scan_network (lines 312-322):
\* without a local address (get_local_ip returned "") `return []`; else
\* scan_status is broadcast, and the probes of the subnet follow.
ScanCall(o, hasLocalIp) ==
    /\ boot = "up"
    /\ cmd[o].pc = "done"
    /\ cmd' = [cmd EXCEPT ![o] =
                 IF hasLocalIp
                 THEN [Idle EXCEPT !.op = "scan", !.pc = "s_probe",
                                   !.ev = <<"scan_status">>]
                 ELSE [Idle EXCEPT !.op = "scan", !.ret = "[]"]]
    /\ UNCHANGED <<devices, conn, status, lastSeen, tasks, processes, loops,
                   shown, session, regVars>>
    /\ UNCHANGED <<fanVars, envVars>>

\* check_host (lines 325-335): the host if the connection was made and
\* closed, None (0) if anything raised, `except: return None`.
CheckHost(h, out) == IF out = "connected" THEN h ELSE 0

\* The id of the device at a host, f"{ip}:5555"; the id of the model is the
\* one of the first candidate host.
IdAt(h) == IF h = 1 THEN "dev" ELSE "-"

\* Lines 338-348: gather returns the results of the probes in the order of
\* the candidates, and every result that is not None is listed.
Listed(outs, dv) ==
    LET results == [h \in Hosts |-> CheckHost(h, outs[h])]
        answered == SelectSeq(results, LAMBDA r : r # 0)
    IN [i \in 1..Len(answered) |->
           [host |-> answered[i], known |-> IdAt(answered[i]) \in dv]]

RegistryAfterScanAdded(dv, fnd) ==
    dv \cup ({IdAt(fnd[i].host) : i \in 1..Len(fnd)} \ {"-"})

\* The Registry after the listing: `'known': device_id in self.devices`
\* reads it, and no host found is added to it.
RegistryAfterScan(dv, fnd) == dv

\* Every probe is over (lines 338-351): the hosts found are listed and
\* scan_result is broadcast.
ScanProbed(o, outs) ==
    /\ cmd[o].pc = "s_probe"
    /\ env' = [env EXCEPT !.probes = outs, !.found = Listed(outs, devices)]
    /\ devices' = RegistryAfterScan(devices, found')
    /\ cmd' = [cmd EXCEPT ![o].pc = "s_bcast", ![o].ev = Append(@, "scan_result")]
    /\ UNCHANGED <<conn, status, lastSeen, tasks, processes, loops,
                   shown, session, regVars>>
    /\ UNCHANGED fanVars

\* scan_network returns the list after the scan_result broadcast; the
\* handler does not keep it.
ScanReturn(o) ==
    /\ cmd[o].pc = "s_bcast"
    /\ cmd' = [cmd EXCEPT ![o] = Done(@, "found")]
    /\ env' = [env EXCEPT !.probes = NoProbes, !.found = <<>>]
    /\ UNCHANGED <<devices, conn, status, lastSeen, tasks, processes, loops,
                   shown, session, regVars>>
    /\ UNCHANGED fanVars

-----------------------------------------------------------------------------
(* load_config, save_config *)

\* Bound: entries of the config file.
MaxEntries == 2

\* An entry of the list: its 'id' ("bad" if the entry has none, or one
\* add_device raises on), its 'nickname' and 'connection_type' ("none" if
\* the key is missing).
Entries ==
    [id : DeviceIds \cup {"bad"}, nickname : Nicknames \cup {"none"},
     conn : {"wifi", "usb", "none"}]

Files ==
    {NoFile, [kind |-> "corrupt", entries |-> <<>>]} \cup
    {[kind |-> "list", entries |-> es] :
        es \in UNION {[1..n -> Entries] : n \in 0..MaxEntries}}

\* The part of the DeviceManager load_config writes.
NoDevices ==
    [devices |-> {}, conn |-> [d \in DeviceIds |-> "wifi"],
     nickname |-> [d \in DeviceIds |-> ""], color |-> [d \in DeviceIds |-> 0],
     colorIndex |-> 0, added |-> [d \in DeviceIds |-> 0]]

\* d.get('connection_type', 'wifi').
LoadedType(e) == IF e.conn = "none" THEN "wifi" ELSE e.conn

\* Lines 437-443, one entry: add_device (nothing for an id the Registry
\* holds), then the nickname if the entry has a non-empty one.
LoadEntry(e, m) ==
    LET a == IF e.id \in m.devices THEN m
             ELSE [m EXCEPT !.devices = @ \cup {e.id},
                            !.conn[e.id] = LoadedType(e),
                            !.nickname[e.id] = "",
                            !.color[e.id] = NextColor(m.colorIndex),
                            !.colorIndex = @ + 1,
                            !.added[e.id] = @ + 1]
    IN IF e.nickname \in {"none", ""} THEN a
       ELSE [a EXCEPT !.nickname[e.id] = e.nickname]

\* The loop of lines 437-443 over the entries: d['id'] of an entry without
\* id raises, `except: pass` ends the loop and keeps what was added.
RECURSIVE LoadEntries(_, _)
LoadEntries(es, m) ==
    IF es = <<>> THEN m
    ELSE IF Head(es).id = "bad" THEN m
    ELSE LoadEntries(Tail(es), LoadEntry(Head(es), m))

\* load_config (lines 432-445) into a new DeviceManager: nothing without a
\* file, and nothing if json.loads or config.get raises.
Loaded(f) ==
    IF f.kind = "list" THEN LoadEntries(f.entries, NoDevices) ELSE NoDevices

\* on_startup (line 1433) in a new process: load_config; every device it
\* adds is offline with zeroed stats.  No observer is connected before, and
\* each one gets the device_list when it connects.
Startup ==
    /\ boot \in {"cold", "saved"}
    /\ env' = [env EXCEPT !.boot = "up", !.probes = NoProbes, !.found = <<>>]
    /\ LET m == Loaded(file) IN
         /\ devices' = m.devices
         /\ conn' = m.conn
         /\ nickname' = m.nickname
         /\ color' = m.color
         /\ colorIndex' = m.colorIndex
         /\ added' = m.added
         /\ shown' = [d \in DeviceIds |->
                        IF d \in m.devices THEN "offline" ELSE "absent"]
         /\ inbox' = [o \in Observers |-> <<DeviceList(m.devices, m.nickname)>>]
    /\ status' = [d \in DeviceIds |-> "offline"]
    /\ stats' = [d \in DeviceIds |-> ZeroStats]
    /\ lastSeen' = [d \in DeviceIds |-> FALSE]
    /\ tasks' = [d \in DeviceIds |-> 0]
    /\ processes' = [d \in DeviceIds |-> NoProc]
    /\ loops' = [d \in DeviceIds |-> [s \in Slots |-> FreeLoop]]
    /\ cmd' = [o \in Observers |-> Idle]
    /\ session' = [d \in DeviceIds |-> "open"]
    /\ UNCHANGED <<clients, ws, pending, seq, audience>>

\* The ids in the order self.devices.values() yields them.
RECURSIVE InOrder(_)
InOrder(dv) ==
    IF dv = {} THEN <<>>
    ELSE LET d == CHOOSE x \in dv : TRUE IN <<d>> \o InOrder(dv \ {d})

SavedEntryNoType(d) == [id |-> d, nickname |-> nickname[d], conn |-> "none"]

\* Lines 421-425: what save_config writes of a device.
SavedEntry(d) == [id |-> d, nickname |-> nickname[d], conn |-> conn[d]]

\* The list save_config writes (lines 419-428).
Saved ==
    [kind |-> "list",
     entries |-> [i \in 1..Cardinality(devices) |-> SavedEntry(InOrder(devices)[i])]]

\* on_cleanup (lines 1442-1447) once its disconnect_device calls have
\* returned: save_config writes the file, and the process ends with every
\* task it had.
SaveConfig ==
    /\ boot = "up"
    /\ \A o \in Observers : cmd[o].pc = "done"
    /\ \A d \in devices : tasks[d] = 0 /\ processes[d] = NoProc
    /\ env' = [env EXCEPT !.file = Saved, !.boot = "saved"]
    /\ loops' = [d \in DeviceIds |-> [s \in Slots |-> FreeLoop]]
    /\ tasks' = [d \in DeviceIds |-> 0]
    /\ processes' = [d \in DeviceIds |-> NoProc]
    /\ UNCHANGED <<devices, conn, status, lastSeen, cmd, shown, session,
                   regVars, fanVars>>

-----------------------------------------------------------------------------
(* parse_log_line *)

\* A message is a sequence of tokens: a word, a bracketed label `[text]`, or
\* colored text `<color=attr>text</color>`.
Word(t) == [k |-> "word", text |-> t, attr |-> ""]

Label(t) == [k |-> "label", text |-> t, attr |-> ""]

Colored(c, t) == [k |-> "color", text |-> t, attr |-> c]

\* The tokens of the messages the model reads.
Tokens ==
    {Label("Quantum"), Label("12h 30m"), Word("Vivox"), Word("Network"),
     Word("http"), Word("Analytics"), Word("Camera"), Word("Player"),
     Word("Destroying"), Word("started"), Colored("#ff0000", "RED")}

\* Bound: tokens of a message the model draws.
MaxTokens == 2

Messages == UNION {[1..n -> Tokens] : n \in 0..MaxTokens}

\* The message of the example of the spec:
\* `[Quantum] Match started <color=#ff0000>RED</color> team`.
ExampleMessage ==
    <<Label("Quantum"), Word("Match"), Word("started"),
      Colored("#ff0000", "RED"), Word("team")>>

\* The level letters LOG_PATTERN takes, `[VDIWEF]`.
LetterLevels == {"V", "D", "I", "W", "E", "F"}

\* A line of the stream: blank (empty or white space), text that does not
\* begin with a timestamp, pid and tid, or a line that does, with its level
\* letter ("X": a letter LOG_PATTERN does not take), raw tag and message.
StampedLines(levels, msgs) ==
    [pre : {"stamp"}, ts : {"01-15 10:23:45.123"}, level : levels,
     tag : {"Unity"}, msg : msgs]

BlankLine == [pre |-> "blank", ts |-> "", level |-> "", tag |-> "", msg |-> <<>>]

GarbageLine ==
    [pre |-> "text", ts |-> "", level |-> "", tag |-> "",
     msg |-> <<Word("garbage"), Word("not"), Word("a"), Word("log"), Word("line")>>]

ShortMessages == {<<>>, <<Word("started")>>}

\* The lines the model reads where the counters are observed: blank,
\* garbage, and stamped lines of a level with a key in the stats of a new
\* device, of one without, and with a letter that is no level.
StreamLines ==
    {BlankLine, GarbageLine} \cup StampedLines(Levels \cup {"X"}, ShortMessages)

\* The lines the model parses.
Lines ==
    StreamLines \cup StampedLines({"I"}, Messages \cup {ExampleMessage})

MatchesAnyLetter(l) == l.pre = "stamp"

\* LOG_PATTERN.match(line) (lines 97-103).
Matches(l) == l.pre = "stamp" /\ l.level \in LetterLevels

\* The keywords of lines 486-497 that occur in the lower-cased text.
KeywordsIn(t) ==
    CASE t = "Quantum" -> {"quantum"}
      [] t = "Vivox" -> {"vivox"}
      [] t = "Network" -> {"network"}
      [] t = "http" -> {"http"}
      [] t = "Analytics" -> {"analytics"}
      [] t = "Camera" -> {"camera"}
      [] t = "Player" -> {"player"}
      [] t = "Destroying" -> {"roy"}
      [] OTHER -> {}

\* `kw in msg_lower` for one of the keywords kws.
Has(msg, kws) ==
    \E i \in 1..Len(msg) : (KeywordsIn(msg[i].text) \cup KeywordsIn(msg[i].attr)) \cap kws # {}

\* Lines 485-497.
Category(msg) ==
    IF Has(msg, {"quantum"}) THEN "quantum"
    ELSE IF Has(msg, {"vivox"}) THEN "vivox"
    ELSE IF Has(msg, {"connection", "network", "http"}) THEN "network"
    ELSE IF Has(msg, {"analytics", "firebase"}) THEN "analytics"
    ELSE IF Has(msg, {"camera", "follower"}) THEN "camera"
    ELSE IF Has(msg, {"player", "roy"}) THEN "player"
    ELSE "None"

\* re.match(r'\d+hs?\s+\d+m', potential_tag).
IsDuration(t) == t = "12h 30m"

\* Lines 476-481: the first bracketed label of the message, unless it is a
\* duration; "" for None.
UnityTag(msg) ==
    LET labels == SelectSeq(msg, LAMBDA x : x.k = "label")
    IN IF labels = <<>> \/ IsDuration(Head(labels).text) THEN ""
       ELSE Head(labels).text

\* COLOR_TAG_PATTERN.sub(r'\2', message): colored text becomes its text, the
\* other tokens stay.
CleanMessage(msg) ==
    [i \in 1..Len(msg) |-> IF msg[i].k = "color" THEN Word(msg[i].text) ELSE msg[i]]

\* parse_log_line (lines 464-510).
ParseLogLine(l) ==
    IF l.pre = "blank" THEN NoRecord
    ELSE IF ~Matches(l) THEN NoRecord
    ELSE [timestamp |-> l.ts,
          level |-> l.level,
          tag |-> IF UnityTag(l.msg) # "" THEN UnityTag(l.msg) ELSE l.tag,
          message |-> CleanMessage(l.msg),
          category |-> Category(l.msg),
          raw |-> l]

-----------------------------------------------------------------------------
(* run_logcat *)

\* The task resumes normally: it exists, waits at pc, and no cancel is pending.
At(d, s, pcs) == loops[d][s].pc \in pcs /\ ~loops[d][s].cancel

\* First step of the task: `device = self.devices[device_id]`, a KeyError
\* that ends the task if the id is not registered; then the subprocess is
\* being created.
LoopStart(d, s) ==
    /\ At(d, s, {"new"})
    /\ LET lp == [loops EXCEPT ![d][s].pc =
                    IF d \in devices THEN "open" ELSE "crashed"]
       IN loops' = Collect(lp, tasks, cmd)
    /\ UNCHANGED <<devices, conn, status, lastSeen, tasks, processes, cmd,
                   shown, session>>
    /\ UNCHANGED <<regVars, fanVars, envVars>>

\* create_subprocess_exec returned: `self.processes[device_id] = process`.
LoopOpened(d, s) ==
    /\ At(d, s, {"open"})
    /\ processes' = [processes EXCEPT ![d] = [owner |-> s, exited |-> FALSE]]
    /\ loops' = [loops EXCEPT ![d][s].pc = "read"]
    /\ UNCHANGED <<devices, conn, status, lastSeen, tasks, cmd, shown, session>>
    /\ UNCHANGED <<regVars, fanVars, envVars>>

\* The status run_logcat sets when the stream has ended (line 299) and when
\* opening or reading it raised (line 308).
EofStatus == "connecting"

ErrorStatus == "offline"

\* create_subprocess_exec or readline raised: the `except Exception` handler
\* sets the status and broadcasts it; the task then waits in the handler, for
\* the broadcast and for the sleep.
LoopError(d, s) ==
    /\ At(d, s, {"open", "read"})
    /\ status' = [status EXCEPT ![d] = ErrorStatus]
    /\ shown' = Broadcast(shown, d, ErrorStatus)
    /\ session' = Emitted(session, d)
    /\ loops' = [loops EXCEPT ![d][s].pc = "err_wait"]
    /\ UNCHANGED <<devices, conn, lastSeen, tasks, processes, cmd>>
    /\ UNCHANGED <<regVars, fanVars, envVars>>

\* readline returned a line parse_log_line accepts: last_seen is set and the
\* record is broadcast; the task then waits for the broadcast and for the
\* next line.
Record(d, s) ==
    /\ At(d, s, {"read"})
    /\ lastSeen' = [lastSeen EXCEPT ![d] = TRUE]
    /\ session' = Emitted(session, d)
    /\ UNCHANGED <<devices, conn, status, tasks, processes, loops, cmd, shown>>

\* The record where the counters are not observed.
LoopRecord(d, s) ==
    /\ Record(d, s)
    /\ UNCHANGED <<regVars, fanVars, envVars>>

StatsAfterRecordTwice(st, lvl) ==
    [st EXCEPT ![lvl] = @ + 2, !.total = @ + 2]

\* Lines 290-291: the counter of the record's level and the total, each
\* incremented by one.
StatsAfterRecord(st, lvl) ==
    [st EXCEPT ![lvl] = @ + 1, !.total = @ + 1]

\* The record of level lvl with the counters of the device.
LoopRecordCounted(d, s, lvl) ==
    /\ Record(d, s)
    /\ stats[d].total < MaxRecords
    /\ stats' = [stats EXCEPT ![d] = StatsAfterRecord(@, lvl)]
    /\ UNCHANGED <<color, colorIndex, nickname, added>>
    /\ UNCHANGED <<fanVars, envVars>>

DisplayNameBackend(nk, nm) == nm

\* `device.nickname or device.name`.
DisplayName(nk, nm) == IF nk # "" THEN nk ELSE nm

\* DeviceInfo.name while the device is connected: what get_device_name
\* returned at the connect (line 209).
Name(d) == "Pixel"

\* Lines 286-289: the record with the id, display name and color of the
\* device of the task.
Stamped(p, d) ==
    [record |-> p, device_id |-> d,
     device_name |-> DisplayName(nickname[d], Name(d)),
     device_color |-> color[d]]

\* f with v for d.
Put(f, d, v) == [x \in DOMAIN f \cup {d} |-> IF x = d THEN v ELSE f[x]]

\* readline returned the line l (lines 279-296).  If parse_log_line returns a
\* record it is stamped, last_seen is set and the record is broadcast; else
\* the task reads the next line.
Line(d, s, l) ==
    /\ env' = [env EXCEPT
                 !.line = Put(@, d, l),
                 !.parsed = Put(@, d, ParseLogLine(l)),
                 !.logged = IF ParseLogLine(l) # NoRecord
                            THEN Put(@, d, Stamped(ParseLogLine(l), d)) ELSE @]
    /\ IF ParseLogLine(l) # NoRecord
       THEN Record(d, s)
       ELSE /\ At(d, s, {"read"})
            /\ UNCHANGED <<devices, conn, status, lastSeen, tasks, processes,
                           loops, cmd, shown, session>>

\* The line where the counters are not observed.
LoopLine(d, s, l) ==
    /\ Line(d, s, l)
    /\ UNCHANGED <<regVars, fanVars>>

\* The line with the counters of the device.
LoopLineCounted(d, s, l) ==
    /\ Line(d, s, l)
    /\ IF ParseLogLine(l) # NoRecord
       THEN /\ stats[d].total < MaxRecords
            /\ stats' = [stats EXCEPT ![d] = StatsAfterRecord(@, ParseLogLine(l).level)]
       ELSE UNCHANGED stats
    /\ UNCHANGED <<color, colorIndex, nickname, added>>
    /\ UNCHANGED fanVars

\* readline returned b'': the stream process has exited.  Lines 298-301: the
\* status is set and broadcast; the task then waits for the broadcast and for
\* the sleep.
LoopEof(d, s) ==
    /\ At(d, s, {"read"})
    /\ processes' = [processes EXCEPT ![d] =
                       IF @.owner = s THEN [@ EXCEPT !.exited = TRUE] ELSE @]
    /\ status' = [status EXCEPT ![d] = EofStatus]
    /\ shown' = Broadcast(shown, d, EofStatus)
    /\ session' = Emitted(session, d)
    /\ loops' = [loops EXCEPT ![d][s].pc = "eof_wait"]
    /\ UNCHANGED <<devices, conn, lastSeen, tasks, cmd>>
    /\ UNCHANGED <<regVars, fanVars, envVars>>

RetryGivesUpOnError(pc) == IF pc = "err_wait" THEN "returned" ELSE "open"

\* Where the task goes when the sleep is over: `while True`, after an end of
\* the stream as after an error.
RetryPc(pc) == "open"

\* The backoff is over: the next attempt to open the stream.
LoopRetry(d, s) ==
    /\ At(d, s, {"eof_wait", "err_wait"})
    /\ LET lp == [loops EXCEPT ![d][s].pc = RetryPc(loops[d][s].pc)]
       IN loops' = Collect(lp, tasks, cmd)
    /\ UNCHANGED <<devices, conn, status, lastSeen, tasks, processes, cmd,
                   shown, session>>
    /\ UNCHANGED <<regVars, fanVars, envVars>>

\* A pending cancel is delivered when the task resumes.  Inside the try body
\* `except asyncio.CancelledError: break` ends the loop; in the `except
\* Exception` handler, and in a task that has not run yet, nothing catches the
\* CancelledError and it ends the task.
LoopCancelled(d, s) ==
    /\ Alive(loops[d][s])
    /\ loops[d][s].cancel
    /\ LET lp == [loops EXCEPT ![d][s] =
                    [pc |-> IF loops[d][s].pc \in TryAwaits
                            THEN "returned" ELSE "cancelled",
                     cancel |-> FALSE]]
       IN loops' = Collect(lp, tasks, cmd)
    /\ UNCHANGED <<devices, conn, status, lastSeen, tasks, processes, cmd,
                   shown, session>>
    /\ UNCHANGED <<regVars, fanVars, envVars>>

-----------------------------------------------------------------------------
(* websocket_handler and broadcast, with the deliveries *)

\* Who called broadcast: the run_logcat task s of d, or the handler of o.
ByLoop(d, s) == [kind |-> "loop", id |-> d, slot |-> s]

ByHandler(o) == [kind |-> "handler", id |-> o, slot |-> 0]

\* The caller is still in `await asyncio.gather(...)`: one of its sends has
\* not run.
Busy(by) == \E i \in 1..Len(pending) : pending[i].by = by

\* The orders in which `for client in self.clients` can yield the set.
Orders(cl) ==
    {q \in [1..Cardinality(cl) -> cl] :
        \A i, j \in 1..Cardinality(cl) : i # j => q[i] # q[j]}

\* The send_str calls gather starts for one event, one per client.
Sends(order, ev, by) ==
    [i \in 1..Len(order) |-> [to |-> order[i], ev |-> ev, by |-> by]]

\* A connection takes what is written to it until it is lost.
Receives(w) == w \in {"preparing", "open"}

DeliverFirst(inb, ev) == <<ev>> \o inb

\* send_str writes the message to the connection.
Deliver(inb, ev) == Append(inb, ev)

AfterFailureAborts(q) == SelectSeq(Tail(q), LAMBDA x : x.ev.n # Head(q).ev.n)

\* gather(..., return_exceptions=True): a send_str that raises is one result
\* among the others, the other sends run.
AfterFailure(q) == Tail(q)

ClientsOnAcceptAdded(cl, o) == cl \cup {o}

\* The clients set while ws.prepare is awaited: the observer is added after.
ClientsOnAccept(cl, o) == cl

\* A connection arrives: websocket_handler starts and awaits ws.prepare.
Accept(o) ==
    /\ ws[o] = "none"
    /\ ws' = [ws EXCEPT ![o] = "preparing"]
    /\ clients' = ClientsOnAccept(clients, o)
    /\ UNCHANGED <<devices, conn, status, lastSeen, tasks, processes, loops, cmd,
                   shown, session, regVars, envVars, inbox, pending, seq, audience>>

\* ws.prepare raises (the peer is gone before the handshake is over): the
\* handler ends before line 524.
PrepareFails(o) ==
    /\ ws[o] = "preparing"
    /\ ws' = [ws EXCEPT ![o] = "finished"]
    /\ UNCHANGED <<devices, conn, status, lastSeen, tasks, processes, loops, cmd,
                   shown, session, regVars, envVars, clients, inbox, pending, seq, audience>>

\* ws.prepare returned (lines 524-531): clients.add(ws), then the device_list
\* is sent, outside the try.  If that send_str raises, the handler ends there.
Join(o, sent) ==
    /\ ws[o] = "preparing"
    /\ clients' = clients \cup {o}
    /\ IF sent
       THEN /\ inbox' = [inbox EXCEPT ![o] = Deliver(@, DeviceList(devices, nickname))]
            /\ ws' = [ws EXCEPT ![o] = "open"]
       ELSE /\ ws' = [ws EXCEPT ![o] = "finished"]
            /\ UNCHANGED inbox
    /\ UNCHANGED <<devices, conn, status, lastSeen, tasks, processes, loops, cmd,
                   shown, session, regVars, envVars, pending, seq, audience>>

\* The connection of a connected observer is lost.
PeerCloses(o) ==
    /\ ws[o] = "open"
    /\ ws' = [ws EXCEPT ![o] = "closing"]
    /\ UNCHANGED <<devices, conn, status, lastSeen, tasks, processes, loops, cmd,
                   shown, session, regVars, envVars, clients, inbox, pending, seq, audience>>

\* `async for msg in ws` ends; `finally: clients.discard(ws)`.
ReceiveEnds(o) ==
    /\ ws[o] = "closing"
    /\ ~Busy(ByHandler(o))
    /\ ws' = [ws EXCEPT ![o] = "finished"]
    /\ clients' = clients \ {o}
    /\ UNCHANGED <<devices, conn, status, lastSeen, tasks, processes, loops, cmd,
                   shown, session, regVars, envVars, inbox, pending, seq, audience>>

\* Handling a message raises (json.loads of a text that is no JSON, or a
\* command that raises): `except Exception`, then the finally.
CommandRaises(o) ==
    /\ ws[o] = "open"
    /\ ~Busy(ByHandler(o))
    /\ ws' = [ws EXCEPT ![o] = "finished"]
    /\ clients' = clients \ {o}
    /\ UNCHANGED <<devices, conn, status, lastSeen, tasks, processes, loops, cmd,
                   shown, session, regVars, envVars, inbox, pending, seq, audience>>

\* broadcast(ev) by the caller `by`: nothing without clients, else one
\* send_str per client is started and the caller waits for them all.
Broadcasting(ev, by) ==
    /\ seq < MaxEvents
    /\ seq' = seq + 1
    /\ audience' = Append(audience, clients)
    /\ \E order \in Orders(clients) : pending' = pending \o Sends(order, ev, by)
    /\ UNCHANGED <<clients, ws, inbox>>

\* The set_nickname command of a connected observer for a registered id.
FanNickname(o, d, n) ==
    /\ ws[o] = "open"
    /\ ~Busy(ByHandler(o))
    /\ d \in devices
    /\ nickname' = [nickname EXCEPT ![d] = n]
    /\ shown' = Broadcast(shown, d, status[d])
    /\ Broadcasting([type |-> "device_update", n |-> seq + 1, dev |-> d, nick |-> n],
                    ByHandler(o))
    /\ UNCHANGED <<devices, conn, status, lastSeen, tasks, processes, loops, cmd,
                   session, color, colorIndex, stats, added, envVars>>

\* The task reads a line that parses, once the broadcast of the line before
\* is over, and broadcasts its record.
FanRecord(d, s) ==
    /\ Record(d, s)
    /\ ~Busy(ByLoop(d, s))
    /\ Broadcasting([type |-> "log", n |-> seq + 1, dev |-> d], ByLoop(d, s))
    /\ UNCHANGED <<regVars, envVars>>

\* The event loop runs the next send_str: the message is written, or the
\* call raises because the connection is lost.
Send ==
    /\ pending # <<>>
    /\ LET p == Head(pending) IN
       IF Receives(ws[p.to])
       THEN /\ inbox' = [inbox EXCEPT ![p.to] = Deliver(@, p.ev)]
            /\ pending' = Tail(pending)
       ELSE /\ pending' = AfterFailure(pending)
            /\ UNCHANGED inbox
    /\ UNCHANGED <<devices, conn, status, lastSeen, tasks, processes, loops, cmd,
                   shown, session, regVars, envVars, clients, ws, seq, audience>>

-----------------------------------------------------------------------------
(* Specification *)

Handler(o) ==
    \/ \E d \in DeviceIds : ConnectCall(o, d)
    \/ ConnectFailed(o)
    \/ ConnectReturnFalse(o)
    \/ ConnectOnline(o)
    \/ ConnectStart(o)
    \/ \E d \in DeviceIds : DisconnectCall(o, d)
    \/ DisconnectJoined(o)
    \/ DisconnectReturn(o)

\* The handler of an observer that also issues remove commands and commands
\* websocket_handler ignores.
Remover(o) ==
    \/ \E d \in DeviceIds : RemoveCall(o, d)
    \/ RemoveDelete(o)
    \/ RemoveReturn(o)
    \/ \E op \in IgnoredOps, d \in DeviceIds : IgnoredCall(o, op, d)

Loop(d, s) ==
    \/ LoopStart(d, s)
    \/ LoopOpened(d, s)
    \/ LoopError(d, s)
    \/ LoopRecord(d, s)
    \/ LoopEof(d, s)
    \/ LoopRetry(d, s)
    \/ LoopCancelled(d, s)

Next ==
    \/ \E o \in Observers : Handler(o)
    \/ \E d \in DeviceIds, s \in Slots : Loop(d, s)

\* Two observers issue connect and disconnect commands.
Spec == Init /\ [][Next]_vars

\* One observer issues connect, disconnect and remove commands and commands
\* that websocket_handler ignores, one after the other.
Solo == CHOOSE o \in Observers : TRUE

NextSolo ==
    \/ Handler(Solo)
    \/ Remover(Solo)
    \/ \E d \in DeviceIds, s \in Slots : Loop(d, s)

SoloSpec == Init /\ [][NextSolo]_vars

\* The state DeviceManager() constructs and the observers find: no device,
\* no task, no process.
Constructed ==
    /\ devices = {}
    /\ conn = [d \in DeviceIds |-> "wifi"]
    /\ status = [d \in DeviceIds |-> "offline"]
    /\ lastSeen = [d \in DeviceIds |-> FALSE]
    /\ tasks = [d \in DeviceIds |-> 0]
    /\ processes = [d \in DeviceIds |-> NoProc]
    /\ loops = [d \in DeviceIds |-> [s \in Slots |-> FreeLoop]]
    /\ cmd = [o \in Observers |-> Idle]
    /\ shown = [d \in DeviceIds |-> "absent"]
    /\ session = [d \in DeviceIds |-> "open"]
    /\ color = [d \in DeviceIds |-> 0]
    /\ colorIndex = 0
    /\ nickname = [d \in DeviceIds |-> ""]
    /\ stats = [d \in DeviceIds |-> ZeroStats]
    /\ added = [d \in DeviceIds |-> 0]
    /\ clients = Observers
    /\ ws = [o \in Observers |-> "open"]
    /\ inbox = [o \in Observers |-> <<DeviceList(devices, nickname)>>]
    /\ pending = <<>>
    /\ seq = 0
    /\ audience = <<>>

\* The Registry is empty at the start (no config file).  One observer issues
\* add_device, connect, disconnect, set_nickname, clear_stats and scan
\* commands, and the records of the stream are counted.
InitReg ==
    /\ Constructed
    /\ InitEnv

\* The probes of a scan where no host answers, or the first one only.
FewAnswers ==
    {outs \in [Hosts -> {"timeout", "connected"}] :
        \A h \in Hosts : h # 1 => outs[h] = "timeout"}

Registrar(o, scans) ==
    \/ \E d \in DeviceIds : AddCall(o, d)
    \/ AddReturn(o)
    \/ \E d \in DeviceIds, n \in Nicknames : SetNicknameCall(o, d, n)
    \/ \E d \in DeviceIds : ClearStatsCall(o, d)
    \/ UpdateReturn(o)
    \/ \E hasLocalIp \in BOOLEAN : ScanCall(o, hasLocalIp)
    \/ \E outs \in scans : ScanProbed(o, outs)
    \/ ScanReturn(o)

LoopCounted(d, s) ==
    \/ LoopStart(d, s)
    \/ LoopOpened(d, s)
    \/ LoopError(d, s)
    \/ \E lvl \in Levels : LoopRecordCounted(d, s, lvl)
    \/ LoopEof(d, s)
    \/ LoopRetry(d, s)
    \/ LoopCancelled(d, s)

NextReg ==
    \/ Handler(Solo)
    \/ Registrar(Solo, FewAnswers)
    \/ \E d \in DeviceIds, s \in Slots : LoopCounted(d, s)

RegSpec == InitReg /\ [][NextReg]_vars

\* The Registry is empty at the start and no session is opened.  One
\* observer issues add_device, remove, set_nickname, clear_stats and scan
\* commands, and the probes of a scan meet every outcome.
AllProbes == [Hosts -> Outcomes]

NextRoster ==
    \/ Registrar(Solo, AllProbes)
    \/ Remover(Solo)

RosterSpec == InitReg /\ [][NextRoster]_vars

\* The process starts with any config file.  One observer issues add_device,
\* remove and set_nickname commands; the process is shut down and started
\* again.  No session is opened.
InitBoot ==
    /\ Constructed
    /\ \E f \in Files : env = Env(f, "cold")

NextBoot ==
    \/ Startup
    \/ SaveConfig
    \/ \E d \in DeviceIds : AddCall(Solo, d)
    \/ AddReturn(Solo)
    \/ \E d \in DeviceIds, n \in Nicknames : SetNicknameCall(Solo, d, n)
    \/ UpdateReturn(Solo)
    \/ Remover(Solo)

BootSpec == InitBoot /\ [][NextBoot]_vars

\* The process starts without a config file or with the file of one usb
\* device.  One observer issues add_device, set_nickname, connect and
\* disconnect commands, the records of the stream are counted; the process
\* is shut down and started again.
ColdFiles ==
    {NoFile,
     [kind |-> "list",
      entries |-> <<[id |-> "dev", nickname |-> "", conn |-> "usb"]>>]}

InitRestart ==
    /\ Constructed
    /\ \E f \in ColdFiles : env = Env(f, "cold")

NextRestart ==
    \/ Startup
    \/ SaveConfig
    \/ Handler(Solo)
    \/ \E d \in DeviceIds : AddCall(Solo, d)
    \/ AddReturn(Solo)
    \/ \E d \in DeviceIds, n \in Nicknames : SetNicknameCall(Solo, d, n)
    \/ UpdateReturn(Solo)
    \/ \E d \in DeviceIds, s \in Slots : LoopCounted(d, s)

RestartSpec == InitRestart /\ [][NextRestart]_vars

\* The device of the config file is connected (the auto-connect of
\* on_startup is over) and its stream is being read; no observer yet.  The
\* observers connect, issue set_nickname commands, fail and leave, while the
\* stream delivers records; the stream neither ends nor fails.
Streaming ==
    /\ devices = DeviceIds
    /\ conn = [d \in DeviceIds |-> "wifi"]
    /\ status = [d \in DeviceIds |-> "online"]
    /\ lastSeen = [d \in DeviceIds |-> TRUE]
    /\ tasks = [d \in DeviceIds |-> 1]
    /\ processes = [d \in DeviceIds |-> [owner |-> 1, exited |-> FALSE]]
    /\ loops = [d \in DeviceIds |-> [s \in Slots |->
                   IF s = 1 THEN [pc |-> "read", cancel |-> FALSE] ELSE FreeLoop]]
    /\ cmd = [o \in Observers |-> Idle]
    /\ shown = [d \in DeviceIds |-> "online"]
    /\ session = [d \in DeviceIds |-> "open"]
    /\ color = [d \in DeviceIds |-> 0]
    /\ colorIndex = Cardinality(DeviceIds)
    /\ nickname = [d \in DeviceIds |-> ""]
    /\ stats = [d \in DeviceIds |-> ZeroStats]
    /\ added = [d \in DeviceIds |-> 1]

InitFan ==
    /\ Streaming
    /\ clients = {}
    /\ ws = [o \in Observers |-> "none"]
    /\ inbox = [o \in Observers |-> <<>>]
    /\ pending = <<>>
    /\ seq = 0
    /\ audience = <<>>
    /\ InitEnv

Connection(o) ==
    \/ Accept(o)
    \/ PrepareFails(o)
    \/ \E sent \in BOOLEAN : Join(o, sent)
    \/ PeerCloses(o)
    \/ ReceiveEnds(o)
    \/ CommandRaises(o)
    \/ \E d \in DeviceIds, n \in Nicknames : FanNickname(o, d, n)

NextFan ==
    \/ \E o \in Observers : Connection(o)
    \/ \E d \in DeviceIds, s \in Slots : FanRecord(d, s)
    \/ Send

FanSpec == InitFan /\ [][NextFan]_vars

\* The device is connected and its stream is being read.  The task reads
\* lines of every form, its stream ends, fails and is opened again, and one
\* observer issues set_nickname commands.
InitStream ==
    /\ Streaming
    /\ clients = Observers
    /\ ws = [o \in Observers |-> "open"]
    /\ inbox = [o \in Observers |-> <<DeviceList(devices, nickname)>>]
    /\ pending = <<>>
    /\ seq = 0
    /\ audience = <<>>
    /\ InitEnv

NextStream ==
    \/ \E d \in DeviceIds, s \in Slots, l \in StreamLines : LoopLineCounted(d, s, l)
    \/ \E d \in DeviceIds, s \in Slots :
          LoopEof(d, s) \/ LoopError(d, s) \/ LoopRetry(d, s) \/ LoopOpened(d, s)
    \/ \E d \in DeviceIds, n \in Nicknames : SetNicknameCall(Solo, d, n)
    \/ UpdateReturn(Solo)

StreamSpec == InitStream /\ [][NextStream]_vars

\* The same device; its task reads lines with every message the model
\* draws, and the counters are not observed.
NextParse ==
    \E d \in DeviceIds, s \in Slots, l \in Lines : LoopLine(d, s, l)

ParseSpec == InitStream /\ [][NextParse]_vars

\* The Registry as load_config left it.  Two observers issue connect,
\* disconnect and remove commands.
Removes(o) ==
    \/ \E d \in DeviceIds : RemoveCall(o, d)
    \/ RemoveDelete(o)
    \/ RemoveReturn(o)

NextCrowd ==
    \/ \E o \in Observers : Handler(o) \/ Removes(o)
    \/ \E d \in DeviceIds, s \in Slots : Loop(d, s)

CrowdSpec == Init /\ [][NextCrowd]_vars

\* on_cleanup is one coroutine, run when the process is asked to stop, and no
\* command is taken up from then on: the model keeps its position in the
\* record of the observer that issues no command.
Cleaner == CHOOSE o \in Observers : o # Solo

\* on_cleanup (lines 1442-1447) begins: `for device_id in
\* list(device_manager.devices.keys())` calls disconnect_device, and
\* save_config follows at once if the Registry is empty.  The model has one
\* id: the loop makes one call.
CleanupCall ==
    /\ boot = "up"
    /\ cmd[Cleaner].pc = "done"
    /\ IF devices = {}
       THEN /\ env' = [env EXCEPT !.file = Saved, !.boot = "saved"]
            /\ cmd' = [cmd EXCEPT ![Cleaner] =
                         [Idle EXCEPT !.op = "cleanup", !.ret = "ok"]]
            /\ UNCHANGED <<tasks, processes, status, shown, session, loops>>
       ELSE LET d == Head(InOrder(devices)) IN
            /\ env' = [env EXCEPT !.boot = "stopping"]
            /\ DisconnectBegin(Cleaner, d, [Idle EXCEPT !.op = "cleanup", !.dev = d])
    /\ UNCHANGED <<devices, conn, lastSeen>>
    /\ UNCHANGED <<regVars, fanVars>>

\* The disconnect_device call of on_cleanup has returned (after its
\* broadcast, or at once for an id that is no longer registered):
\* save_config writes the file and on_cleanup is over.
CleanupSave ==
    /\ boot = "stopping"
    /\ cmd[Cleaner].op = "cleanup"
    /\ \/ cmd[Cleaner].pc = "d_bcast"
       \/ cmd[Cleaner].pc = "done" /\ cmd[Cleaner].ret = "ok"
    /\ env' = [env EXCEPT !.file = Saved, !.boot = "saved"]
    /\ cmd' = [cmd EXCEPT ![Cleaner] = Done(@, "ok")]
    /\ session' = [session EXCEPT ![cmd[Cleaner].dev] = "closed"]
    /\ UNCHANGED <<devices, conn, status, lastSeen, tasks, processes, loops, shown>>
    /\ UNCHANGED <<regVars, fanVars>>

\* The Registry as load_config left it.  connect_device is called for the
\* device, by the task on_startup created (lines 1436-1437) and by the
\* connect commands of one observer, which also issues disconnect commands;
\* the stream is read, ends and fails; then the process is asked to stop and
\* on_cleanup runs, with whatever call and task is in progress.  Nothing runs
\* once on_cleanup is over.
NextShutdown ==
    \/ boot # "saved" /\ Handler(Solo)
    \/ boot # "saved" /\ \E d \in DeviceIds, s \in Slots : Loop(d, s)
    \/ CleanupCall
    \/ DisconnectJoined(Cleaner)
    \/ CleanupSave

ShutdownSpec == Init /\ [][NextShutdown]_vars

\* The event loop resumes a task whose sleep is over.
FairSpec == Spec /\ \A d \in DeviceIds, s \in Slots : WF_vars(LoopRetry(d, s))

-----------------------------------------------------------------------------
(* Properties *)

\* A step of observer o's handler that ends a call of op.
Ends(o, op) == cmd'[o] # cmd[o] /\ cmd'[o].op = op /\ cmd'[o].pc = "done"

\* C1: a disconnect command followed immediately by a connect command for the
\* same device never results in two run_logcat tasks of the device alive at
\* the same time.  Stated at the step at which such a connect (issued when the
\* disconnect had returned and no task of the device was alive) starts its
\* task.
C1_DisconnectThenConnectOneLoop ==
    [][\A o \in Observers :
          (cmd[o].pc = "c_online" /\ cmd[o].dc /\ Ends(o, "connect"))
             => Cardinality(AliveIn(loops', cmd[o].dev)) <= 1]_vars

\* C2: once disconnect_device(id) has returned, no log or device_update of
\* the id is broadcast until a connect command for the id is issued.  (The
\* "offline" a repeated disconnect broadcasts is not counted.)
C2_QuietAfterDisconnect == \A d \in DeviceIds : session[d] # "leak"

\* C3: a disconnect_device of a registered device completes with the status
\* offline, no run_logcat task of the device alive, and no entry of the device
\* in tasks or processes, whatever the phase of the streaming loop.  Stated
\* for a disconnect issued by the only observer that has issued commands.
C3_DisconnectCompletes ==
    [][\A o \in Observers :
          (/\ Ends(o, "disconnect")
           /\ cmd'[o].dev \in devices
           /\ \A p \in Observers \ {o} : cmd[p] = Idle)
             => LET d == cmd'[o].dev IN
                /\ cmd'[o].ret = "ok"
                /\ status'[d] = "offline"
                /\ tasks'[d] = 0
                /\ processes'[d] = NoProc
                /\ AliveIn(loops', d) = {}]_vars

InBackoff(d, s) == loops[d][s].pc \in {"eof_wait", "err_wait"}

\* C4: after the stream has ended or failed the loop makes a new attempt to
\* open it, every time; a loop that has started stops only when a disconnect
\* has cancelled it.
C4_RetriesUntilCancelled ==
    /\ [][\A d \in DeviceIds, s \in Slots :
             (/\ Alive(loops[d][s])
              /\ loops[d][s].pc # "new"
              /\ ~Alive(loops'[d][s])) => loops[d][s].cancel]_vars
    /\ \A d \in DeviceIds, s \in Slots :
          InBackoff(d, s) ~> (loops[d][s].pc = "open" \/ loops[d][s].cancel)

\* The only loop of the device, started by the one command issued so far,
\* opens the stream again after the stream process has exited (first
\* failure) and a later open has raised (second failure).
C4_Witness ==
    \E d \in DeviceIds, s \in Slots, o \in Observers :
        /\ cmd[o].op = "connect" /\ cmd[o].ret = "True"
        /\ \A p \in Observers \ {o} : cmd[p] = Idle
        /\ AliveLoops(d) = {s}
        /\ loops[d][s] = [pc |-> "open", cancel |-> FALSE]
        /\ processes[d] = [owner |-> s, exited |-> TRUE]
        /\ status[d] = "offline"

\* C5: when the stream of an online device ends, or opening or reading it
\* raises, the status becomes connecting and a device_update carrying it is
\* broadcast before the backoff.
C5_DropSetsConnecting ==
    [][\A d \in DeviceIds, s \in Slots :
          (/\ status[d] = "online"
           /\ loops[d][s].pc \in {"open", "read"}
           /\ loops'[d][s].pc \in {"eof_wait", "err_wait"})
             => status'[d] = "connecting" /\ shown'[d] = "connecting"]_vars

\* C6: a connect_device the backend fails broadcasts connecting then offline,
\* sets the status offline, returns False, and starts no run_logcat task.
C6_FailedConnect ==
    /\ [](\A o \in Observers :
            cmd[o].backend = "failed" =>
               /\ cmd[o].ev = <<"connecting", "offline">>
               /\ cmd[o].pc = "c_fail")
    /\ [][\A o \in Observers :
             /\ (cmd'[o] # cmd[o] /\ cmd'[o].backend = "failed") =>
                   /\ loops' = loops /\ tasks' = tasks
                   /\ status'[cmd[o].dev] = "offline"
                   /\ shown'[cmd[o].dev] = "offline"
             /\ (cmd'[o] # cmd[o] /\ cmd[o].backend = "failed") =>
                   /\ loops' = loops /\ tasks' = tasks
                   /\ cmd'[o] = Done(cmd[o], "False")]_vars

C6_Witness ==
    \E o \in Observers :
        /\ cmd[o].op = "connect" /\ cmd[o].pc = "done" /\ cmd[o].ret = "False"
        /\ \A p \in Observers \ {o} : cmd[p] = Idle
        /\ cmd[o].dev \in devices
        /\ conn[cmd[o].dev] = "wifi"
        /\ status[cmd[o].dev] = "offline" /\ shown[cmd[o].dev] = "offline"
        /\ AliveLoops(cmd[o].dev) = {}

\* C7: a connect_device the backend accepts sets connecting then online and
\* broadcasts a device_update for each, in that order, records last_seen,
\* starts exactly one run_logcat task, recorded in tasks, and returns True.
C7_SuccessfulConnect ==
    /\ [](\A o \in Observers :
            cmd[o].backend = "ok" =>
               /\ cmd[o].ev = <<"connecting", "online">>
               /\ lastSeen[cmd[o].dev]
               /\ cmd[o].pc = "c_online")
    /\ [][\A o \in Observers :
             (cmd'[o] # cmd[o] /\ cmd'[o].op = "connect" /\ cmd'[o].dev \in devices) =>
                LET d == cmd'[o].dev IN
                CASE cmd'[o].pc = "c_wait" ->
                        /\ status'[d] = "connecting" /\ shown'[d] = "connecting"
                        /\ loops' = loops /\ tasks' = tasks
                  [] cmd'[o].pc = "c_online" ->
                        /\ status'[d] = "online" /\ shown'[d] = "online"
                        /\ loops' = loops /\ tasks' = tasks
                  [] cmd'[o].pc = "done" /\ cmd'[o].ret = "True" ->
                        \E s \in Slots :
                           /\ ~Alive(loops[d][s]) /\ Alive(loops'[d][s])
                           /\ tasks'[d] = s
                           /\ AliveIn(loops', d) = AliveLoops(d) \cup {s}
                  [] OTHER -> TRUE]_vars

\* An offline device with no task, connected by the one command issued so far.
C7_Witness ==
    \E o \in Observers :
        /\ cmd[o].op = "connect" /\ cmd[o].pc = "done" /\ cmd[o].ret = "True"
        /\ \A p \in Observers \ {o} : cmd[p] = Idle
        /\ status[cmd[o].dev] = "online"
        /\ AliveLoops(cmd[o].dev) = {tasks[cmd[o].dev]}

AllowedTransitions ==
    {<<"offline", "connecting">>, <<"connecting", "online">>,
     <<"online", "connecting">>, <<"online", "offline">>,
     <<"connecting", "offline">>}

\* C8: every change of a device's status is one of the transitions of the
\* state machine; never offline -> online.
C8_OnlyAllowedTransitions ==
    [][\A d \in DeviceIds :
          status'[d] # status[d] => <<status[d], status'[d]>> \in AllowedTransitions]_vars

\* C9: every status a device holds has been broadcast in a device_update, the
\* latest one of the device.
C9_StatusAlwaysBroadcast == \A d \in devices : shown[d] = status[d]

\* The stream of a connected device has ended: connecting, broadcast.
C9_Witness ==
    \E d \in devices, s \in Slots :
        /\ loops[d][s].pc = "eof_wait"
        /\ status[d] = "connecting" /\ shown[d] = "connecting"

\* C10: a run_logcat task is alive only for a device that is online or
\* connecting.
C10_LoopOnlyWhileOnlineOrConnecting ==
    \A d \in DeviceIds : AliveLoops(d) # {} => status[d] \in {"online", "connecting"}

\* C12: a remove_device of a registered device disconnects it and then
\* deletes it: when the command is over it has not raised, the offline
\* device_update was broadcast before the device_removed, the id is not in
\* devices and no run_logcat task of the id exists.
C12_RemoveDisconnectsThenDeletes ==
    [][(/\ cmd[Solo].op = "remove"
        /\ cmd[Solo].pc # "done"
        /\ cmd'[Solo].pc = "done")
          => LET d == cmd[Solo].dev IN
             /\ cmd'[Solo].ret = "ok"
             /\ cmd[Solo].ev = <<"offline", "removed">>
             /\ d \notin devices'
             /\ \A s \in Slots : loops'[d][s].pc = "free"]_vars

\* A handler step that takes up a command naming an id the Registry does
\* not hold, or a command with an unknown action.
TakesUpUnknown(o) ==
    /\ cmd[o].pc = "done"
    /\ cmd'[o] # cmd[o]
    /\ cmd'[o].op = "ignored" \/ cmd'[o].dev \notin devices

\* C17: a command with an unknown action, or one that names an id that is not
\* in the Registry, is over at once and changes nothing: devices, tasks and
\* processes are as before, nothing is broadcast, nothing is raised.
C17_UnknownIsNoOp ==
    [][TakesUpUnknown(Solo) =>
          /\ cmd'[Solo].pc = "done"
          /\ cmd'[Solo].ret # "raised"
          /\ devices' = devices /\ tasks' = tasks /\ processes' = processes
          /\ shown' = shown /\ status' = status]_vars

\* C18: when every command has been processed, the page of a connected
\* observer holds exactly the ids of the Registry, each with the status the
\* Registry has for it.
C18_ViewsConverge ==
    cmd[Solo].pc = "done" =>
        \A d \in DeviceIds :
            IF d \in devices THEN shown[d] = status[d] ELSE shown[d] = "absent"

\* C11: add_device for an id the Registry holds changes nothing: the device
\* keeps its color, status, nickname, stats, connection type and last_seen,
\* the Registry keeps its ids, color_index does not advance and no
\* device_added is broadcast.
C11_AddIsIdempotent ==
    [][(/\ cmd[Solo].pc = "done"
        /\ cmd'[Solo] # cmd[Solo]
        /\ cmd'[Solo].op = "add_device"
        /\ cmd'[Solo].dev \in devices)
          => /\ cmd'[Solo].pc = "done"
             /\ devices' = devices
             /\ color' = color /\ status' = status /\ nickname' = nickname
             /\ stats' = stats /\ conn' = conn /\ lastSeen' = lastSeen
             /\ colorIndex' = colorIndex
             /\ added' = added /\ shown' = shown]_vars

\* add_device for a device that is online, has a nickname and counted
\* records: still one device_added, color_index still 1.
C11_Witness ==
    \E d \in devices :
        /\ cmd[Solo] = Done([op |-> "add_device", dev |-> d], "ok")
        /\ status[d] = "online"
        /\ nickname[d] = "nick"
        /\ stats[d].total = MaxRecords
        /\ added[d] = 1 /\ colorIndex = 1

\* C19: the counters of a device change only by one record (its level and
\* the total, each by one) or by a clear_stats for the device, which zeroes
\* them all and broadcasts a device_update; no other step changes them.
C19_StatsOnlyCountOrClear ==
    [][\A d \in DeviceIds :
          LET clears == /\ cmd[Solo].pc = "done"
                        /\ cmd'[Solo].op = "clear_stats"
                        /\ cmd'[Solo].pc = "u_bcast"
                        /\ cmd'[Solo].dev = d
          IN /\ stats'[d] # stats[d] =>
                  \/ /\ \E s \in Slots : loops[d][s].pc = "read"
                     /\ cmd' = cmd
                     /\ \E lvl \in Levels :
                           stats'[d] = [stats[d] EXCEPT ![lvl] = @ + 1,
                                                        !.total = @ + 1]
                  \/ clears
             /\ clears =>
                  /\ \A k \in DOMAIN stats'[d] : stats'[d][k] = 0
                  /\ shown'[d] = status'[d]
                  /\ cmd'[Solo].ev = <<"device_update">>]_vars

\* The counters of two records have outlived a restart of the stream and a
\* disconnect.
C19_Witness ==
    \E d \in devices :
        /\ cmd[Solo] = Done([op |-> "disconnect", dev |-> d], "ok")
        /\ stats[d].total = MaxRecords /\ stats[d].F = 1
        /\ processes[d] = NoProc
        /\ status[d] = "offline"
        /\ nickname[d] = "nick"

\* C20: a scan is over only after it has broadcast scan_status and then
\* scan_result, once each.
C20_ScanBroadcastsBoth ==
    [][(/\ cmd'[Solo] # cmd[Solo]
        /\ cmd'[Solo].op = "scan"
        /\ cmd'[Solo].pc = "done")
          => /\ cmd[Solo].op = "scan"
             /\ cmd[Solo].ev = <<"scan_status", "scan_result">>]_vars

\* Observer o holds the event numbered n.
Got(o, n) == \E i \in 1..Len(inbox[o]) : inbox[o][i].n = n

\* A send of the event numbered n to o has not run yet.
Owed(o, n) == \E i \in 1..Len(pending) : pending[i].to = o /\ pending[i].ev.n = n

\* C13: every event is delivered to every observer that was a client when
\* it was broadcast and whose connection is open, whatever happened to the
\* sends to the other clients; and a send that fails ends alone, the caller
\* of broadcast sees no exception.
C13_BroadcastIsolation ==
    /\ [](\A n \in 1..seq : \A o \in audience[n] :
             (ws[o] = "open" /\ ~Owed(o, n)) => Got(o, n))
    /\ [][Len(pending') < Len(pending) => Len(pending') = Len(pending) - 1]_vars

\* An event both observers were clients for: the connection of one was lost
\* and its send failed, the other one holds the event.
C13_Witness ==
    \E n \in 1..seq : \E o, p \in audience[n] :
        /\ o # p
        /\ ws[o] \in {"closing", "finished"} /\ ~Got(o, n) /\ ~Owed(o, n)
        /\ ws[p] = "open" /\ Got(p, n)

\* C14: the log events of a device reach an observer in the order in which
\* the task read the lines.
C14_LogOrder ==
    \A o \in Observers : \A i, j \in 1..Len(inbox[o]) :
        (/\ i < j
         /\ inbox[o][i].type = "log" /\ inbox[o][j].type = "log"
         /\ inbox[o][i].dev = inbox[o][j].dev)
           => inbox[o][i].n < inbox[o][j].n

\* An observer holds two log events, a device_update between them.
C14_Witness ==
    \E o \in Observers :
        /\ Len(inbox[o]) = 4
        /\ inbox[o][2].type = "log"
        /\ inbox[o][3].type = "device_update"
        /\ inbox[o][4].type = "log"

\* C15: an observer whose handler has ended is not in clients.
C15_FinishedNotInClients ==
    \A o \in Observers : ws[o] = "finished" => o \notin clients

\* C16: the first event of every connection is its device_list, there is no
\* second one, and it lists the Registry as it is when the observer is added
\* to clients.
C16_DeviceListFirstOnce ==
    /\ [](\A o \in Observers :
             /\ ws[o] = "open" => inbox[o] # <<>>
             /\ inbox[o] # <<>> =>
                   /\ inbox[o][1].type = "device_list"
                   /\ \A i \in 2..Len(inbox[o]) : inbox[o][i].type # "device_list")
    /\ [][\A o \in Observers :
             (o \notin clients /\ o \in clients' /\ ws'[o] = "open")
                => inbox'[o] = <<DeviceList(devices', nickname')>>]_vars

\* An observer that connected after a set_nickname and a first broadcast:
\* its device_list carries the nickname, a later event follows it.
C16_Witness ==
    \E o \in Observers :
        /\ Len(inbox[o]) >= 2
        /\ inbox[o][1] = DeviceList(devices, [d \in DeviceIds |-> "nick"])
        /\ inbox[o][2].n >= 2
        /\ ~Got(o, 1)

-----------------------------------------------------------------------------
(* Scan *)

\* The hosts a scan lists.
FoundHosts == {found[i].host : i \in 1..Len(found)}

\* C21: when the probes of a scan are over, its result lists exactly the
\* candidate hosts whose probe connected, each once, and whatever the other
\* probes met (refused, timed out) the scan goes on to its result.
C21_ScanListsConnected ==
    /\ [](cmd[Solo].pc = "s_bcast" =>
            /\ FoundHosts = {h \in Hosts : probes[h] \in {"connected", "reset"}}
            /\ \A i, j \in 1..Len(found) : i # j => found[i].host # found[j].host)
    /\ [][(cmd[Solo].pc = "s_probe" /\ cmd'[Solo] # cmd[Solo])
             => cmd'[Solo].pc = "s_bcast"]_vars

\* C22: no step of a scan (its start, the end of its probes, its return)
\* changes the Registry, a field of a device, color_index, or a task or
\* process of a session, while the sessions go on.
C22_ScanLeavesRegistry ==
    [][(cmd'[Solo] # cmd[Solo] /\ cmd'[Solo].op = "scan")
          => /\ devices' = devices
             /\ status' = status /\ stats' = stats /\ nickname' = nickname
             /\ color' = color /\ colorIndex' = colorIndex
             /\ conn' = conn /\ lastSeen' = lastSeen
             /\ tasks' = tasks /\ processes' = processes /\ loops' = loops]_vars

\* A scan has listed the first host, whose device is registered and was
\* streaming while the probes ran: its records were counted meanwhile.
C22_Witness ==
    /\ cmd[Solo].pc = "s_bcast"
    /\ Len(found) = 1 /\ found[1].known
    /\ status["dev"] = "online"
    /\ \E s \in Slots : loops["dev"][s].pc = "read"
    /\ stats["dev"].total = MaxRecords
    /\ nickname["dev"] = "nick"

-----------------------------------------------------------------------------
(* Persistence *)

\* C24: after load_config of a missing file, of a file that does not parse,
\* or of a list with an entry lacking its id at any position, the Registry
\* is empty (and the startup went on: the process serves).
Degraded(f) ==
    \/ f.kind \in {"missing", "corrupt"}
    \/ \E i \in 1..Len(f.entries) : f.entries[i].id = "bad"

C24_CorruptFileEmptyRegistry ==
    [][(boot = "cold" /\ boot' = "up" /\ Degraded(file)) => devices' = {}]_vars

\* C23: the Registry load_config builds from the file save_config wrote has
\* the ids the Registry had at the save, each with the nickname and the
\* connection type it had; every device is offline, with zeroed stats and no
\* last_seen, whatever it had.
C23_SaveLoadRoundTrip ==
    [][(boot = "saved" /\ boot' = "up")
          => /\ devices' = devices
             /\ \A d \in devices :
                   /\ nickname'[d] = nickname[d]
                   /\ conn'[d] = conn[d]
                   /\ status'[d] = "offline"
                   /\ stats'[d] = ZeroStats
                   /\ ~lastSeen'[d]]_vars

\* The process serves again after a restart: the usb device of the first
\* file has the nickname an observer gave it before the shutdown.
C23_Witness ==
    /\ boot = "up"
    /\ file = [kind |-> "list",
               entries |-> <<[id |-> "dev", nickname |-> "nick", conn |-> "usb"]>>]
    /\ devices = {"dev"}
    /\ nickname["dev"] = "nick" /\ conn["dev"] = "usb"
    /\ status["dev"] = "offline" /\ stats["dev"] = ZeroStats
    /\ cmd[Solo] = Idle

-----------------------------------------------------------------------------
(* Colors *)

\* C25: no step changes the color of a device that is in the Registry before
\* and after it (the id of a device is the key it is stored under, and
\* nothing stores a device under another key): a connect, a disconnect,
\* set_nickname, clear_stats, a scan, a step of the stream, or add_device for
\* the same id.
C25_ColorFixed ==
    [][\A d \in DeviceIds :
          (d \in devices /\ d \in devices') => color'[d] = color[d]]_vars

\* The device still has the first color of the palette after a repeated
\* add_device, a nickname, counted records, an end of its stream and a scan
\* that returned.
C25_Witness ==
    \E d \in devices :
        /\ color[d] = 0 /\ colorIndex = 1 /\ added[d] = 1
        /\ cmd[Solo] = Done([op |-> "scan", dev |-> "-"], "found")
        /\ status[d] = "connecting"
        /\ nickname[d] = "nick"
        /\ stats[d].total = MaxRecords

\* The devices created since the process started: one device_added each.
RECURSIVE Creations(_)
Creations(ids) ==
    IF ids = {} THEN 0
    ELSE LET d == CHOOSE x \in ids : TRUE IN added[d] + Creations(ids \ {d})

\* C26: the device created after k others (removed since or not) gets the
\* color k mod 8 of the palette; it differs from the color of the device
\* created just before (color[d] keeps the color of a removed device).
C26_RoundRobin ==
    [][\A d \in DeviceIds :
          (d \notin devices /\ d \in devices')
             => /\ color'[d] = Creations(DeviceIds) % PaletteSize
                /\ Creations(DeviceIds) > 0 => color'[d] # color[d]]_vars

\* The ninth device created has the color of the first.
C26_Witness ==
    \E d \in devices :
        /\ added[d] = PaletteSize + 1
        /\ colorIndex = PaletteSize + 1
        /\ color[d] = 0

-----------------------------------------------------------------------------
(* Lines of the stream *)

\* C27: a line that is blank, does not begin with timestamp, pid and tid, or
\* has no level letter gives no record; reading it broadcasts nothing and
\* leaves the stats, last_seen and status of the device, and its task goes on
\* reading.
C27_BadLineDropped ==
    [][\A d \in DeviceIds :
          (/\ line'[d] # line[d]
           /\ \/ line'[d].pre \in {"blank", "text"}
              \/ line'[d].level \notin LetterLevels)
             => /\ parsed'[d] = NoRecord
                /\ logged' = logged /\ shown' = shown /\ session' = session
                /\ stats' = stats /\ lastSeen' = lastSeen /\ status' = status
                /\ loops' = loops
                /\ \E s \in Slots : loops'[d][s].pc = "read"]_vars

\* The task has read the garbage line after a record it counted and
\* broadcast, and reads on.
C27_Witness ==
    \E d \in devices :
        /\ line[d] = GarbageLine
        /\ parsed[d] = NoRecord
        /\ logged[d] # NoRecord
        /\ stats[d].total = 1
        /\ status[d] = "online"
        /\ \E s \in Slots : loops[d][s].pc = "read"

\* The six categories in their order.
CategoryNames ==
    <<"quantum", "vivox", "network", "analytics", "camera", "player">>

\* The categories whose keyword occurs in the message.
Named(msg) == {i \in 1..Len(CategoryNames) : Has(msg, {CategoryNames[i]})}

\* C28: the category of a record is the first of the six keywords that
\* occurs in the message, None exactly when none of the six occurs.
C28_CategoryFirstKeyword ==
    \A d \in DeviceIds :
        parsed[d] # NoRecord =>
            LET n == Named(line[d].msg)
            IN parsed[d].category =
                 IF n = {} THEN "None"
                 ELSE CategoryNames[CHOOSE i \in n : \A j \in n : i <= j]

ExampleLine ==
    [pre |-> "stamp", ts |-> "01-15 10:23:45.123", level |-> "I",
     tag |-> "Unity", msg |-> ExampleMessage]

\* C29: the line of the example parses to tag Quantum, category quantum, its
\* timestamp and level, and the message `Match started RED team`.
C29_ExampleParses ==
    \A d \in DeviceIds :
        line[d] = ExampleLine =>
            /\ parsed[d] # NoRecord
            /\ parsed[d].tag = "Quantum"
            /\ parsed[d].category = "quantum"
            /\ parsed[d].timestamp = "01-15 10:23:45.123"
            /\ parsed[d].level = "I"
            /\ parsed[d].message =
                  <<Word("Match"), Word("started"), Word("RED"), Word("team")>>

C31_OneLoopPerDevice ==
    \A d \in DeviceIds :
        /\ Cardinality(AliveLoops(d)) <= 1
        /\ AliveLoops(d) # {} => tasks[d] \in AliveLoops(d)

\* C32: after a device_removed of an id was broadcast, no device_update and
\* no log of the id is broadcast unless a device_added of the id is broadcast
\* first, also when a connect of the id was in progress when the remove was
\* processed.  While the last of these events of the id is the
\* device_removed (shown is "absent"), no step broadcasts a device_update of
\* it, and none the first log since remove_device returned.
C32_QuietAfterRemoved ==
    [][\A d \in DeviceIds :
          (shown[d] = "absent" /\ added'[d] = added[d])
             => /\ shown'[d] = "absent"
                /\ ~(session[d] = "closed" /\ session'[d] = "leak")]_vars

\* C33: every id with an entry in tasks or in processes is in devices.
C33_TasksOnlyOfRegistered ==
    \A d \in DeviceIds :
        (tasks[d] # 0 \/ processes[d] # NoProc) => d \in devices

\* C36: two remove commands of different observers for the same registered
\* device, interleaved at any suspension point, both complete without raising
\* and the device is deleted; device_removed is broadcast once: never for an
\* id whose device_removed was the last event.  Stated for removes that do
\* not meet a stream process that has exited (C3).
C36_TwoRemoves ==
    [][\A o \in Observers :
          LET d == cmd[o].dev IN
          /\ (/\ cmd[o].op = "remove"
              /\ cmd[o].pc # "done"
              /\ cmd'[o].pc = "done"
              /\ ~(processes[d] # NoProc /\ processes[d].exited))
                => cmd'[o].ret = "ok" /\ d \notin devices'
          /\ (cmd[o].pc = "d_bcast" /\ cmd'[o].pc = "r_bcast")
                => shown[d] # "absent" /\ shown'[d] = "absent"]_vars

\* C34: after a stream drop has put the device into connecting, once the
\* task has opened the stream again and records flow, the status is online
\* again: no record of a device is counted and broadcast while its status is
\* connecting.
C34_OnlineWhileStreaming ==
    [][\A d \in DeviceIds :
          stats'[d].total > stats[d].total => status'[d] # "connecting"]_vars

\* C35: two disconnect commands of different observers for the same connected
\* device, interleaved at any suspension point, both complete without
\* raising, and the device ends offline with no run_logcat task alive and no
\* entry in tasks or processes.  Stated at the step that ends the call of one
\* observer while the other has issued a disconnect of the same device (the
\* end state once that one is over too), for calls that do not meet a stream
\* process that has exited (C3).
C35_TwoDisconnects ==
    [][\A o \in Observers :
          LET d == cmd[o].dev IN
          (/\ cmd[o].op = "disconnect"
           /\ cmd[o].pc # "done"
           /\ cmd'[o].pc = "done"
           /\ ~(processes[d] # NoProc /\ processes[d].exited))
             => \A p \in Observers \ {o} :
                   (cmd[p].op = "disconnect" /\ cmd[p].dev = d)
                      => /\ cmd'[o].ret = "ok"
                         /\ cmd[p].pc = "done"
                               => /\ status'[d] = "offline"
                                  /\ tasks'[d] = 0
                                  /\ processes'[d] = NoProc
                                  /\ AliveIn(loops', d) = {}]_vars

\* C38: in every state another task can observe, the total of a device's
\* stats is the sum of its counters per level, level F included, whatever the
\* interleaving of the records and the clear_stats commands.
C38_TotalIsSum ==
    \A d \in DeviceIds : stats[d].total = stats[d].E + stats[d].F

\* A record of level F is counted while a clear_stats command of the device
\* awaits its broadcast.
C38_Witness ==
    \E d \in devices :
        /\ cmd[Solo].op = "clear_stats" /\ cmd[Solo].dev = d
        /\ cmd[Solo].pc = "u_bcast"
        /\ stats[d].F = 1 /\ stats[d].total = 1

\* C37: when on_cleanup has completed, every device of the Registry is
\* offline, no run_logcat task of it is alive, and the config file has an
\* entry for it, whatever command and auto-connect was in progress when
\* on_cleanup began.  Stated at the step that ends on_cleanup.
C37_CleanupLeavesAllOffline ==
    [][(boot # "saved" /\ boot' = "saved")
          => \A d \in devices' :
                /\ status'[d] = "offline"
                /\ AliveIn(loops', d) = {}
                /\ \E i \in 1..Len(file'.entries) : file'.entries[i].id = d]_vars

=============================================================================
